---- MODULE Spec2Model ----
(***************************************************************************)
(* Model of scripts/analyze-load-test.py: the load-test analysis pipeline  *)
(* main -> load_k6_results / load_system_metrics -> analyze_performance /  *)
(* analyze_system_metrics -> generate_graphs -> generate_report.           *)
(*                                                                         *)
(* Units.  Milliseconds, counts and percentages are integers.  The k6      *)
(* 'rate' statistics of the success/failure metrics are fractions in the   *)
(* source (0.05 = 5%); here they are integers in hundredths (5 = 0.05).    *)
(* Quantiles of the resource series are kept in hundredths of the column's *)
(* unit, so the linear interpolation of quantile(0.95) is exact.           *)
(* Time is counted in ticks, TicksPerSecond ticks to the second.           *)
(***************************************************************************)
EXTENDS Integers, Sequences, FiniteSets, TLC

VARIABLES
    pc,             \* the statement of main that runs next
    run,            \* number of this invocation of the script
    k6_file,        \* the file named by --k6-results, as the loader finds it
    metrics_arg,    \* --system-metrics: not given, or the file as the loader finds it
    k6_data,        \* main's k6_data
    system_df,      \* main's system_df
    perf_analysis,  \* main's perf_analysis
    sys_analysis,   \* main's sys_analysis
    panels,         \* the axes of the 2x3 figure that were drawn on, with what was drawn
    report,         \* the lines written to the report file by this invocation
    console,        \* the loader diagnostics printed by this invocation
    calls,          \* the stage functions called by this invocation, in call order
    now,            \* the wall clock, in ticks
    files,          \* the output directory: path -> the invocations that wrote it
    raised          \* an exception escaped a stage of this invocation

vars == <<pc, run, k6_file, metrics_arg, k6_data, system_df, perf_analysis,
          sys_analysis, panels, report, console, calls, now, files, raised>>

-----------------------------------------------------------------------------
(* Bounds of the model *)

\* at most this many metric keys (or statistic keys) are missing from a sampled document
MaxDropped == 2
\* at most this many rows in a sampled resource log
MaxRows == 2
\* clock ticks per second of wall time
TicksPerSecond == 2
\* the clock is observed up to this tick
MaxClock == 2
\* invocations of the script into one output directory (RunsSpec)
MaxRuns == 2

-----------------------------------------------------------------------------
(* Python values *)

\* None, and a value that is not None
None == <<>>
Some(x) == <<x>>
IsNone(o) == Len(o) = 0
Val(o) == o[1]

\* the empty dict, {}
EmptyDict == [k \in {} |-> 0]

\* dict.get(key, default)
Get(d, key, default) == IF key \in DOMAIN d THEN d[key] ELSE default

\* a dict without the keys of S
Without(d, S) == [k \in (DOMAIN d) \ S |-> d[k]]

\* truth value of an optional dict: None and {} are false
TruthyDict(o) == ~IsNone(o) /\ DOMAIN Val(o) # {}

-----------------------------------------------------------------------------
(* Inputs: metrics documents *)

MetricNames == {"http_reqs", "http_req_duration", "http_req_failed", "ws_latency_ms",
                "ws_messages_total", "room_creation_success", "game_join_success",
                "question_flag_success"}
StatNames == {"count", "rate", "p(50)", "p(90)", "p(95)", "p(99)"}
StateNames == {"testRunDuration", "maxVUs"}

\* sampled values of the three judged statistics: below, at and above each threshold
HttpP95Values == {250, 300, 320}
FailedRateValues == {2, 5, 8}
WsP95Values == {50, 100, 150}

\* a k6 summary with every key the script reads
FullMetrics(h, e, w) ==
    "http_reqs" :> ("count" :> 1200 @@ "rate" :> 40) @@
    "http_req_duration" :> ("p(50)" :> 100 @@ "p(90)" :> 200 @@ "p(95)" :> h @@ "p(99)" :> 450) @@
    "http_req_failed" :> ("rate" :> e) @@
    "ws_latency_ms" :> ("p(95)" :> w) @@
    "ws_messages_total" :> ("count" :> 5000) @@
    "room_creation_success" :> ("rate" :> 99) @@
    "game_join_success" :> ("rate" :> 93) @@
    "question_flag_success" :> ("rate" :> 85)

FullState == "testRunDuration" :> 1500000000 @@ "maxVUs" :> 100

\* the document with metrics m and state s, without the top-level keys of S
Doc(m, s, S) == Without("metrics" :> m @@ "state" :> s, S)

SmallSubsets(S) == {T \in SUBSET S : Cardinality(T) <= MaxDropped}

\* every key present, each judged statistic below, at or above its threshold
FullDocs ==
    {Doc(FullMetrics(h, e, w), FullState, {}) :
        h \in HttpP95Values, e \in FailedRateValues, w \in WsP95Values}

\* some metrics missing
DocsMissingMetrics ==
    {Doc(Without(FullMetrics(320, 8, 150), S), FullState, {}) : S \in SmallSubsets(MetricNames)}

\* some statistics missing from every metric
DocsMissingStats ==
    {Doc([n \in MetricNames |-> Without(FullMetrics(320, 8, 150)[n], S)], FullState, {}) :
        S \in SmallSubsets(StatNames)}

\* top-level keys or keys of 'state' missing (with both top-level keys missing this
\* is {}), and the document whose 'metrics' is {}
DocsMissingTop ==
    {Doc(FullMetrics(320, 8, 150), Without(FullState, T), S) :
        S \in SUBSET {"metrics", "state"}, T \in SUBSET StateNames}
    \cup {Doc(EmptyDict, FullState, {})}

Docs == FullDocs \cup DocsMissingMetrics \cup DocsMissingStats \cup DocsMissingTop

\* what open()/json.load() find at the --k6-results path
K6Files ==
    {[kind |-> "missing", content |-> EmptyDict], [kind |-> "malformed", content |-> EmptyDict]}
    \cup {[kind |-> "ok", content |-> d] : d \in Docs}

-----------------------------------------------------------------------------
(* Inputs: resource logs *)

\* sampled rows of the CSV: idle, every reading at its limit, one reading above it
Rows ==
    {[cpu |-> 20, memory |-> 900, db_connections |-> 10, redis_connections |-> 50],
     [cpu |-> 80, memory |-> 1000, db_connections |-> 80, redis_connections |-> 400],
     [cpu |-> 95, memory |-> 1000, db_connections |-> 80, redis_connections |-> 400],
     [cpu |-> 80, memory |-> 1000, db_connections |-> 95, redis_connections |-> 400],
     [cpu |-> 80, memory |-> 1000, db_connections |-> 80, redis_connections |-> 480]}

Frames == UNION {[1..n -> Rows] : n \in 0..MaxRows}

\* args.system_metrics: not given, or what pd.read_csv finds at the path
MetricsArgs ==
    {[kind |-> k, rows |-> <<>>] : k \in {"not_given", "missing", "unreadable"}}
    \cup {[kind |-> "ok", rows |-> f] : f \in Frames}

-----------------------------------------------------------------------------
(* Loaders *)

\* load_k6_results with 'except json.JSONDecodeError' returning None unreported
load_k6_results_silent(file) ==
    IF file.kind = "ok" THEN [value |-> Some(file.content), printed |-> {}]
    ELSE IF file.kind = "missing" THEN [value |-> None, printed |-> {"results_not_found"}]
    ELSE [value |-> None, printed |-> {}]

\* load_k6_results: the parsed document, or None after a diagnostic
load_k6_results(file) ==
    IF file.kind = "ok" THEN [value |-> Some(file.content), printed |-> {}]
    ELSE IF file.kind = "missing" THEN [value |-> None, printed |-> {"results_not_found"}]
    ELSE [value |-> None, printed |-> {"invalid_json"}]

\* load_system_metrics: the frame of the five named columns, or None after a diagnostic
load_system_metrics(file) ==
    IF file.kind = "ok" THEN [value |-> Some(file.rows), printed |-> {}]
    ELSE IF file.kind = "missing" THEN [value |-> None, printed |-> {"metrics_not_found"}]
    ELSE [value |-> None, printed |-> {"metrics_error"}]

-----------------------------------------------------------------------------
(* Analyzers *)

\* the two keys looked up in the wrong order
StatSwapped(metrics, name, stat) == Get(Get(metrics, stat, EmptyDict), name, 0)

\* metrics.get(name, {}).get(stat, 0)
Stat(metrics, name, stat) == Get(Get(metrics, name, EmptyDict), stat, 0)

\* analyze_performance
analyze_performance(data) ==
    IF ~TruthyDict(data) THEN None
    ELSE LET metrics == Get(Val(data), "metrics", EmptyDict)
             state == Get(Val(data), "state", EmptyDict)
         IN Some([http_requests |->
                     [total |-> Stat(metrics, "http_reqs", "count"),
                      rate |-> Stat(metrics, "http_reqs", "rate"),
                      p95 |-> Stat(metrics, "http_req_duration", "p(95)"),
                      p99 |-> Stat(metrics, "http_req_duration", "p(99)"),
                      failed_rate |-> Stat(metrics, "http_req_failed", "rate")],
                  websocket |->
                     [latency_p95 |-> Stat(metrics, "ws_latency_ms", "p(95)"),
                      messages_total |-> Stat(metrics, "ws_messages_total", "count")],
                  business_metrics |->
                     [room_creation_success |-> Stat(metrics, "room_creation_success", "rate"),
                      game_join_success |-> Stat(metrics, "game_join_success", "rate"),
                      question_flag_success |-> Stat(metrics, "question_flag_success", "rate")],
                  test_duration |-> Get(state, "testRunDuration", 0),
                  max_vus |-> Get(state, "maxVUs", 0)])

\* a column of the frame, as a sequence
Column(rows, name) == [i \in 1..Len(rows) |-> rows[i][name]]

RECURSIVE SumSeq(_)
SumSeq(xs) == IF Len(xs) = 0 THEN 0 ELSE Head(xs) + SumSeq(Tail(xs))

\* Series.mean(), in hundredths (rounded down)
Mean(xs) == (100 * SumSeq(xs)) \div Len(xs)

\* Series.max()
Max(xs) == CHOOSE m \in {xs[i] : i \in 1..Len(xs)} : \A i \in 1..Len(xs) : xs[i] <= m

\* Series.quantile(0.95), linear interpolation between the two nearest ranks,
\* in hundredths: the rank is 0.95 * (n - 1), counted from 0
Quantile95(xs) ==
    LET sorted == SortSeq(xs, LAMBDA a, b : a < b)
        n == Len(xs)
        lo == (95 * (n - 1)) \div 100
        frac == (95 * (n - 1)) % 100
        hi == IF lo + 1 < n THEN lo + 1 ELSE lo
    IN 100 * sorted[lo + 1] + frac * (sorted[hi + 1] - sorted[lo + 1])

Stats(xs) == [mean |-> Mean(xs), max |-> Max(xs), p95 |-> Quantile95(xs)]

\* analyze_system_metrics
analyze_system_metrics(df) ==
    IF IsNone(df) \/ Len(Val(df)) = 0 THEN None
    ELSE Some([cpu |-> Stats(Column(Val(df), "cpu")),
               memory |-> Stats(Column(Val(df), "memory")),
               database_connections |-> Stats(Column(Val(df), "db_connections")),
               redis_connections |-> Stats(Column(Val(df), "redis_connections"))])

-----------------------------------------------------------------------------
(* Output paths *)

\* datetime.now().strftime("%Y%m%d_%H%M%S"): the second the tick t falls in
strftime(t) == t \div TicksPerSecond

\* args.output_dir
output_dir == "load-test-analysis"

\* a chart name that embeds the date only, strftime("%Y%m%d")
GraphPathByDay(t) == <<output_dir, "load-test-analysis-", t \div (86400 * TicksPerSecond), ".png">>

\* the path of the chart image saved at tick t
GraphPath(t) == <<output_dir, "load-test-analysis-", strftime(t), ".png">>

\* the path of the report opened at tick t
ReportPath(t) == <<output_dir, "performance-report-", strftime(t), ".md">>

\* the directory after invocation r wrote path at tick t: each path keeps the
\* writes made to it, the last one being the file's content
WriteFile(dir, path, r, t) ==
    IF path \in DOMAIN dir THEN [dir EXCEPT ![path] = Append(@, [run |-> r, tick |-> t])]
    ELSE dir @@ (path :> <<[run |-> r, tick |-> t]>>)

-----------------------------------------------------------------------------
(* Chart renderer *)

\* bar colours of the business panel: rates in hundredths
GreenAbove == 95
YellowAbove == 90
BarColor(v) == IF v > GreenAbove THEN "green" ELSE IF v > YellowAbove THEN "yellow" ELSE "red"

Drawn(cond, name, data) == IF cond THEN name :> data ELSE EmptyDict

\* 'if k6_data and 'metrics' in k6_data'
HasMetrics(data) == TruthyDict(data) /\ "metrics" \in DOMAIN Val(data)

\* panel 1 is drawn
HttpPanelDrawn(data) == HasMetrics(data) /\ "http_req_duration" \in DOMAIN Val(data)["metrics"]

\* panels 2 to 5 are drawn
ResourcePanelsDrawn(df) == ~IsNone(df)

\* panel 6 is drawn
BusinessPanelDrawn(data) == HasMetrics(data)

HttpPanel(data) ==
    LET duration_data == Val(data)["metrics"]["http_req_duration"]
    IN [values |-> <<Get(duration_data, "p(50)", 0), Get(duration_data, "p(90)", 0),
                     Get(duration_data, "p(95)", 0), Get(duration_data, "p(99)", 0)>>]

BusinessPanel(data) ==
    LET metrics == Val(data)["metrics"]
        values == <<Stat(metrics, "room_creation_success", "rate"),
                    Stat(metrics, "game_join_success", "rate"),
                    Stat(metrics, "question_flag_success", "rate")>>
    IN [values |-> values, colors |-> [i \in 1..3 |-> BarColor(values[i])]]

SeriesPanel(df, name) == [series |-> Column(Val(df), name)]

\* the axes generate_graphs draws on, with what it draws
Figure(data, df) ==
    Drawn(HttpPanelDrawn(data), "http", HttpPanel(data)) @@
    Drawn(ResourcePanelsDrawn(df), "cpu", SeriesPanel(df, "cpu")) @@
    Drawn(ResourcePanelsDrawn(df), "db", SeriesPanel(df, "db_connections")) @@
    Drawn(ResourcePanelsDrawn(df), "redis", SeriesPanel(df, "redis_connections")) @@
    Drawn(ResourcePanelsDrawn(df), "memory", SeriesPanel(df, "memory")) @@
    Drawn(BusinessPanelDrawn(data), "business", BusinessPanel(data))

-----------------------------------------------------------------------------
(* Report writer.  A line is a tuple: its fixed text, named by a tag, then   *)
(* the values formatted into it.                                            *)

\* thresholds of the Performance Assessment (the error rate in hundredths)
AssessHttpLimit == 300
AssessErrorLimit == 5
AssessWsLimit == 100
\* thresholds of the Recommendations (the error rate in hundredths)
RecHttpLimit == 300
RecErrorLimit == 5
RecWsLimit == 100
RecCpuLimit == 80
RecDbLimit == 80
RecRedisLimit == 400

\* a part of the report: the lines it wrote, and whether it raised before finishing
Wrote(lines) == [lines |-> lines, raised |-> FALSE]
Raise == [lines |-> <<>>, raised |-> TRUE]
Then(a, b) == IF a.raised THEN a ELSE [lines |-> a.lines \o b.lines, raised |-> b.raised]

\* the Executive Summary written without testing perf_analysis
PerfPresentUntested(perf) == TRUE

\* 'if perf_analysis:' and 'if sys_analysis:'
PerfPresent(perf) == TruthyDict(perf)
SysPresent(sys) == TruthyDict(sys)

\* a three-bullet block of the Recommendations
Block(cond, tag) == IF cond THEN <<<<tag, 1>>, <<tag, 2>>, <<tag, 3>>>> ELSE <<>>

\* '{x/1000000000:.1f}', in tenths of a second
Tenths(ns) == (ns + 50000000) \div 100000000

\* Key Performance Indicators
KeyIndicators(p) ==
    <<<<"### Key Performance Indicators">>,
      <<"kpi_http_p95", p.http_requests.p95>>,
      <<"kpi_error_rate", p.http_requests.failed_rate>>,
      <<"kpi_ws_p95", p.websocket.latency_p95>>,
      <<"kpi_total_requests", p.http_requests.total>>,
      <<"kpi_request_rate", p.http_requests.rate>>,
      <<"kpi_test_duration", Tenths(p.test_duration)>>,
      <<"kpi_max_vus", p.max_vus>>>>

\* the HTTP assessment with its comparison inverted
HttpAssessmentInverted(http_p95) ==
    IF http_p95 > AssessHttpLimit THEN <<"assess_http", "pass">> ELSE <<"assess_http", "fail">>

\* the three assessment lines
HttpAssessment(http_p95) ==
    IF http_p95 < AssessHttpLimit THEN <<"assess_http", "pass">> ELSE <<"assess_http", "fail">>
ErrorAssessment(error_rate) ==
    IF error_rate < AssessErrorLimit THEN <<"assess_error", "pass">> ELSE <<"assess_error", "fail">>
WsAssessment(ws_p95) ==
    IF ws_p95 < AssessWsLimit THEN <<"assess_ws", "pass">> ELSE <<"assess_ws", "fail">>

Assessment(p) ==
    <<<<"### Performance Assessment">>,
      HttpAssessment(p.http_requests.p95),
      ErrorAssessment(p.http_requests.failed_rate),
      WsAssessment(p.websocket.latency_p95)>>

\* Executive Summary: subscripting None raises TypeError
ExecutiveSummary(perf) ==
    IF ~PerfPresent(perf) THEN Wrote(<<>>)
    ELSE IF IsNone(perf) THEN Raise
    ELSE Wrote(KeyIndicators(Val(perf)) \o Assessment(Val(perf)))

\* System Resource Analysis
SystemSection(sys) ==
    IF ~SysPresent(sys) THEN Wrote(<<>>)
    ELSE IF IsNone(sys) THEN Raise
    ELSE LET a == Val(sys)
         IN Wrote(<<<<"## System Resource Analysis">>,
                    <<"### CPU Usage">>,
                    <<"cpu_average", a.cpu.mean>>, <<"cpu_peak", a.cpu.max>>,
                    <<"cpu_p95", a.cpu.p95>>,
                    <<"### Database Connections">>,
                    <<"db_average", a.database_connections.mean>>,
                    <<"db_peak", a.database_connections.max>>,
                    <<"db_p95", a.database_connections.p95>>,
                    <<"### Redis Connections">>,
                    <<"redis_average", a.redis_connections.mean>>,
                    <<"redis_peak", a.redis_connections.max>>,
                    <<"redis_p95", a.redis_connections.p95>>>>)

\* the conditions of the three performance recommendation blocks
HttpRecommended(p) == p.http_requests.p95 > RecHttpLimit
ErrorRecommended(p) == p.http_requests.failed_rate > RecErrorLimit
WsRecommended(p) == p.websocket.latency_p95 > RecWsLimit

PerfRecommendations(perf) ==
    IF ~PerfPresent(perf) THEN Wrote(<<>>)
    ELSE IF IsNone(perf) THEN Raise
    ELSE Wrote(Block(HttpRecommended(Val(perf)), "rec_http") \o
               Block(ErrorRecommended(Val(perf)), "rec_error") \o
               Block(WsRecommended(Val(perf)), "rec_ws"))

\* the CPU block recommended from the limit on
CpuRecommendedAtLimit(a) == a.cpu.p95 >= 100 * RecCpuLimit

\* the conditions of the three resource recommendation blocks (p95 is in hundredths)
CpuRecommended(a) == a.cpu.p95 > 100 * RecCpuLimit
DbRecommended(a) == a.database_connections.p95 > 100 * RecDbLimit
RedisRecommended(a) == a.redis_connections.p95 > 100 * RecRedisLimit

SysRecommendations(sys) ==
    IF ~SysPresent(sys) THEN Wrote(<<>>)
    ELSE IF IsNone(sys) THEN Raise
    ELSE Wrote(Block(CpuRecommended(Val(sys)), "rec_cpu") \o
               Block(DbRecommended(Val(sys)), "rec_db") \o
               Block(RedisRecommended(Val(sys)), "rec_redis"))

NextSteps == <<<<"## Next Steps">>, <<"step", 1>>, <<"step", 2>>, <<"step", 3>>,
               <<"step", 4>>, <<"step", 5>>>>

\* what generate_report writes between opening the file and closing it
ReportBody(perf, sys, generated) ==
    Then(Wrote(<<<<"# Party Puzzle Palooza Load Test Performance Report">>,
                 <<"generated", strftime(generated)>>,
                 <<"## Executive Summary">>>>),
    Then(ExecutiveSummary(perf),
    Then(SystemSection(sys),
    Then(Wrote(<<<<"## Recommendations">>>>),
    Then(PerfRecommendations(perf),
    Then(SysRecommendations(sys),
         Wrote(NextSteps)))))))

-----------------------------------------------------------------------------
(* main, one action per statement *)

\* the state of an invocation before its first statement
Fresh ==
    /\ pc = "load_k6_results"
    /\ k6_data = None
    /\ system_df = None
    /\ perf_analysis = None
    /\ sys_analysis = None
    /\ panels = EmptyDict
    /\ report = <<>>
    /\ console = {}
    /\ calls = <<>>
    /\ raised = FALSE

\* the sampled pairs of inputs: every document with every loader outcome of the
\* resource log and the logs of at most one row, and every resource log with every
\* loader outcome of the document and the full documents whose judged statistics
\* are all below, all at or all above their thresholds
BaseMetricsArgs == {a \in MetricsArgs : a.kind # "ok" \/ Len(a.rows) <= 1}
BaseK6Files ==
    {f \in K6Files : f.kind # "ok"}
    \cup {[kind |-> "ok", content |-> Doc(FullMetrics(v[1], v[2], v[3]), FullState, {})] :
            v \in {<<250, 2, 50>>, <<300, 5, 100>>, <<320, 8, 150>>}}
Inputs == (K6Files \X BaseMetricsArgs) \cup (BaseK6Files \X MetricsArgs)

\* one invocation into an empty output directory
Init ==
    /\ Fresh
    /\ run = 1
    /\ \E i \in Inputs :
          /\ k6_file = i[1]
          /\ metrics_arg = i[2]
    /\ now = 0
    /\ files = EmptyDict

\* k6_data = load_k6_results(args.k6_results)
LoadK6Results ==
    /\ pc = "load_k6_results"
    /\ LET r == load_k6_results(k6_file)
       IN /\ k6_data' = r.value
          /\ console' = console \cup r.printed
    /\ calls' = Append(calls, "load_k6_results")
    /\ pc' = "load_system_metrics"
    /\ UNCHANGED <<run, k6_file, metrics_arg, system_df, perf_analysis, sys_analysis,
                   panels, report, now, files, raised>>

\* system_df = load_system_metrics(args.system_metrics) if args.system_metrics else None
LoadSystemMetrics ==
    /\ pc = "load_system_metrics"
    /\ IF metrics_arg.kind = "not_given"
       THEN /\ system_df' = None
            /\ UNCHANGED <<console, calls>>
       ELSE /\ LET r == load_system_metrics(metrics_arg)
               IN /\ system_df' = r.value
                  /\ console' = console \cup r.printed
            /\ calls' = Append(calls, "load_system_metrics")
    /\ pc' = "analyze_performance"
    /\ UNCHANGED <<run, k6_file, metrics_arg, k6_data, perf_analysis, sys_analysis,
                   panels, report, now, files, raised>>

\* perf_analysis = analyze_performance(k6_data)
AnalyzePerformance ==
    /\ pc = "analyze_performance"
    /\ perf_analysis' = analyze_performance(k6_data)
    /\ calls' = Append(calls, "analyze_performance")
    /\ pc' = "analyze_system_metrics"
    /\ UNCHANGED <<run, k6_file, metrics_arg, k6_data, system_df, sys_analysis,
                   panels, report, console, now, files, raised>>

\* sys_analysis = analyze_system_metrics(system_df)
AnalyzeSystemMetrics ==
    /\ pc = "analyze_system_metrics"
    /\ sys_analysis' = analyze_system_metrics(system_df)
    /\ calls' = Append(calls, "analyze_system_metrics")
    /\ pc' = "generate_graphs"
    /\ UNCHANGED <<run, k6_file, metrics_arg, k6_data, system_df, perf_analysis,
                   panels, report, console, now, files, raised>>

\* generate_graphs(k6_data, system_df, args.output_dir): the figure is saved under
\* the name of the second in which savefig's argument is formatted
GenerateGraphs ==
    /\ pc = "generate_graphs"
    /\ \E t \in now..MaxClock :
          /\ now' = t
          /\ files' = WriteFile(files, GraphPath(t), run, t)
    /\ panels' = Figure(k6_data, system_df)
    /\ calls' = Append(calls, "generate_graphs")
    /\ pc' = "generate_report"
    /\ UNCHANGED <<run, k6_file, metrics_arg, k6_data, system_df, perf_analysis,
                   sys_analysis, report, console, raised>>

\* generate_report(perf_analysis, sys_analysis, args.output_dir): the file is opened
\* under the name of the second t, the 'Generated' line reads the clock again at g
GenerateReport ==
    /\ pc = "generate_report"
    /\ \E t \in now..MaxClock : \E g \in t..MaxClock :
          LET body == ReportBody(perf_analysis, sys_analysis, g)
          IN /\ now' = g
             /\ files' = WriteFile(files, ReportPath(t), run, t)
             /\ report' = body.lines
             /\ raised' = body.raised
             /\ pc' = IF body.raised THEN "crashed" ELSE "print_summary"
    /\ calls' = Append(calls, "generate_report")
    /\ UNCHANGED <<run, k6_file, metrics_arg, k6_data, system_df, perf_analysis,
                   sys_analysis, panels, console>>

\* print("Analysis complete!") and the console summary
PrintSummary ==
    /\ pc = "print_summary"
    /\ console' = console \cup (IF PerfPresent(perf_analysis) THEN {"performance_summary"} ELSE {})
    /\ raised' = (PerfPresent(perf_analysis) /\ IsNone(perf_analysis))
    /\ pc' = IF raised' THEN "crashed" ELSE "done"
    /\ UNCHANGED <<run, k6_file, metrics_arg, k6_data, system_df, perf_analysis,
                   sys_analysis, panels, report, calls, now, files>>

\* the statements of main
Step ==
    \/ LoadK6Results
    \/ LoadSystemMetrics
    \/ AnalyzePerformance
    \/ AnalyzeSystemMetrics
    \/ GenerateGraphs
    \/ GenerateReport
    \/ PrintSummary

Next == Step

Spec == Init /\ [][Next]_vars

\* every pair of loader outcomes, with the documents that have all their metric
\* keys or lack top-level keys and the resource logs of at most one row
FairK6Files == {f \in K6Files : f.kind # "ok" \/ f.content \in FullDocs \cup DocsMissingTop}
FairInit ==
    /\ Fresh
    /\ run = 1
    /\ k6_file \in FairK6Files
    /\ metrics_arg \in BaseMetricsArgs
    /\ now = 0
    /\ files = EmptyDict

\* a started process runs its statements to the end
FairSpec == FairInit /\ [][Next]_vars /\ WF_vars(Step)

-----------------------------------------------------------------------------
(* Several invocations into the same output directory *)

\* the inputs sampled for repeated invocations
RunK6Files == {f \in K6Files : f.kind = "missing" \/ f.content = Doc(FullMetrics(320, 2, 50), FullState, {})}
RunMetricsArgs == {a \in MetricsArgs : a.kind = "not_given" \/ (a.kind = "ok" /\ Len(a.rows) = 1 /\ a.rows[1].cpu = 95)}

InitRuns ==
    /\ Fresh
    /\ run = 1
    /\ k6_file \in RunK6Files
    /\ metrics_arg \in RunMetricsArgs
    /\ now = 0
    /\ files = EmptyDict

\* the script is invoked again, at the same tick or a later one
NewRun ==
    /\ pc = "done"
    /\ run < MaxRuns
    /\ run' = run + 1
    /\ k6_file' \in RunK6Files
    /\ metrics_arg' \in RunMetricsArgs
    /\ pc' = "load_k6_results"
    /\ k6_data' = None
    /\ system_df' = None
    /\ perf_analysis' = None
    /\ sys_analysis' = None
    /\ panels' = EmptyDict
    /\ report' = <<>>
    /\ console' = {}
    /\ calls' = <<>>
    /\ raised' = FALSE
    /\ UNCHANGED <<now, files>>

NextRuns == Step \/ NewRun

RunsSpec == InitRuns /\ [][NextRuns]_vars

-----------------------------------------------------------------------------
(* Reading the state *)

\* the stages that have returned
Analyzed == pc \in {"generate_graphs", "generate_report", "print_summary", "done", "crashed"}
GraphsSaved == pc \in {"generate_report", "print_summary", "done", "crashed"}
ReportClosed == pc \in {"print_summary", "done", "crashed"}

\* the report's lines that carry the tag
LinesOf(tag) == {i \in 1..Len(report) : report[i][1] = tag}
HasLine(tag) == LinesOf(tag) # {}

\* the document holds metric m with statistic s
Holds(doc, m, s) ==
    /\ "metrics" \in DOMAIN doc
    /\ m \in DOMAIN doc["metrics"]
    /\ s \in DOMAIN doc["metrics"][m]

\* the document's value for metric m and statistic s, 0 when a key is missing
Held(doc, m, s) == IF Holds(doc, m, s) THEN doc["metrics"][m][s] ELSE 0

\* the document's value for key k of 'state', 0 when a key is missing
HeldState(doc, k) ==
    IF "state" \in DOMAIN doc /\ k \in DOMAIN doc["state"] THEN doc["state"][k] ELSE 0

-----------------------------------------------------------------------------
(* Claims *)

C2_AbsentOnlyWhenLoadFailed ==
    Analyzed => (IsNone(perf_analysis) <=> k6_file.kind # "ok")

\* tags of the report's lines, by part
KpiTags == {"### Key Performance Indicators", "kpi_http_p95", "kpi_error_rate", "kpi_ws_p95",
            "kpi_total_requests", "kpi_request_rate", "kpi_test_duration", "kpi_max_vus"}
AssessTags == {"assess_http", "assess_error", "assess_ws"}
PerfRecTags == {"rec_http", "rec_error", "rec_ws"}
SysRecTags == {"rec_cpu", "rec_db", "rec_redis"}
SysSectionTags == {"## System Resource Analysis", "### CPU Usage", "cpu_average", "cpu_peak",
                   "cpu_p95", "### Database Connections", "db_average", "db_peak", "db_p95",
                   "### Redis Connections", "redis_average", "redis_peak", "redis_p95"}

\* C3: when the load of the metrics document failed, analyze_performance returns
\* None and generate_report finishes without raising; its report has no Key
\* Performance Indicator line, no assessment line and no performance
\* recommendation block, and has the Recommendations heading and the five Next
\* Steps.
C3_AbsentDocumentReport ==
    (k6_file.kind # "ok") =>
        /\ Analyzed => IsNone(perf_analysis)
        /\ ~raised
        /\ pc # "crashed"
        /\ ReportClosed =>
              /\ \A tag \in KpiTags \cup AssessTags \cup PerfRecTags : ~HasLine(tag)
              /\ ~HasLine("### Performance Assessment")
              /\ Cardinality(LinesOf("## Recommendations")) = 1
              /\ Cardinality(LinesOf("## Next Steps")) = 1
              /\ Cardinality(LinesOf("step")) = 5

\* C3 witness: the report of a run whose results file was not valid JSON and whose
\* resource log was loaded
C3_Witness ==
    /\ pc = "done"
    /\ k6_file.kind = "malformed"
    /\ ~IsNone(sys_analysis)
    /\ HasLine("## Next Steps")
    /\ HasLine("rec_cpu")

\* C4 (as claimed): for a resource log that is absent or has no rows,
\* analyze_system_metrics returns None, the report has no System Resource
\* Analysis section and no resource recommendation block, and the CPU, database,
\* Redis and memory panels are not drawn: the resource panels are drawn only if
\* the resource summary is present.
C4_ResourcePanelsNeedSummary ==
    /\ (Analyzed /\ (metrics_arg.kind # "ok" \/ Len(metrics_arg.rows) = 0)) =>
          /\ IsNone(sys_analysis)
          /\ ReportClosed => \A tag \in SysSectionTags \cup SysRecTags : ~HasLine(tag)
    /\ GraphsSaved =>
          \A name \in {"cpu", "db", "redis", "memory"} :
              name \in DOMAIN panels => ~IsNone(sys_analysis)

\* C5: for a present performance summary the report has exactly one assessment
\* line for each of HTTP p95, error rate and WebSocket p95; the line is the pass
\* mark when the value is below 300 ms, 5% and 100 ms respectively and the fail
\* mark when it is above, each judged on its own value.
C5_AssessmentLines ==
    (ReportClosed /\ ~IsNone(perf_analysis)) =>
        LET p == Val(perf_analysis)
            Judged(tag, value, limit) ==
                /\ Cardinality(LinesOf(tag)) = 1
                /\ \A i \in LinesOf(tag) :
                      /\ value < limit => report[i][2] = "pass"
                      /\ value > limit => report[i][2] = "fail"
        IN /\ Judged("assess_http", p.http_requests.p95, 300)
           /\ Judged("assess_error", p.http_requests.failed_rate, 5)
           /\ Judged("assess_ws", p.websocket.latency_p95, 100)

\* C5 witness: p95 = 320 with a failure rate of 0.02 is marked HTTP fail, error
\* rate pass
C5_Witness ==
    /\ pc = "done"
    /\ ~IsNone(perf_analysis)
    /\ Val(perf_analysis).http_requests.p95 = 320
    /\ Val(perf_analysis).http_requests.failed_rate = 2
    /\ \E i \in LinesOf("assess_http") : report[i][2] = "fail"
    /\ \E i \in LinesOf("assess_error") : report[i][2] = "pass"

\* the order of the recommendation blocks
RecRank(tag) ==
    CASE tag = "rec_http" -> 1 [] tag = "rec_error" -> 2 [] tag = "rec_ws" -> 3
      [] tag = "rec_cpu" -> 4 [] tag = "rec_db" -> 5 [] tag = "rec_redis" -> 6
      [] OTHER -> 0

\* C6: each of the six recommendation blocks is written (its three bullets, once)
\* exactly when the summary it reads is present and its own value exceeds its
\* threshold: HTTP p95 > 300, failure rate > 0.05, WebSocket p95 > 100, CPU p95
\* > 80, database connections p95 > 80, Redis connections p95 > 400; the blocks
\* follow the Recommendations heading in that order.
C6_RecommendationBlocks ==
    ReportClosed =>
        LET Emitted(tag, cond) == Cardinality(LinesOf(tag)) = IF cond THEN 3 ELSE 0
            perf == ~IsNone(perf_analysis)
            sys == ~IsNone(sys_analysis)
        IN /\ Emitted("rec_http", perf /\ Val(perf_analysis).http_requests.p95 > 300)
           /\ Emitted("rec_error", perf /\ Val(perf_analysis).http_requests.failed_rate > 5)
           /\ Emitted("rec_ws", perf /\ Val(perf_analysis).websocket.latency_p95 > 100)
           /\ Emitted("rec_cpu", sys /\ Val(sys_analysis).cpu.p95 > 8000)
           /\ Emitted("rec_db", sys /\ Val(sys_analysis).database_connections.p95 > 8000)
           /\ Emitted("rec_redis", sys /\ Val(sys_analysis).redis_connections.p95 > 40000)
           /\ LET bullets == {i \in 1..Len(report) : RecRank(report[i][1]) > 0}
              IN /\ \A i, j \in bullets : i < j => RecRank(report[i][1]) <= RecRank(report[j][1])
                 /\ \A h \in LinesOf("## Recommendations") : \A i \in bullets : h < i

\* C6 witness: a report with the HTTP and Redis blocks and without the error and
\* CPU blocks, the CPU p95 being exactly 80
C6_Witness ==
    /\ pc = "done"
    /\ HasLine("rec_http")
    /\ ~HasLine("rec_error")
    /\ HasLine("rec_redis")
    /\ ~HasLine("rec_cpu")
    /\ ~IsNone(sys_analysis)
    /\ Val(sys_analysis).cpu.p95 = 8000

\* the stage calls main makes, given whether --system-metrics was given
ExpectedCalls ==
    <<"load_k6_results">> \o
    (IF metrics_arg.kind = "not_given" THEN <<>> ELSE <<"load_system_metrics">>) \o
    <<"analyze_performance", "analyze_system_metrics", "generate_graphs", "generate_report">>

\* the diagnostic a loader outcome is reported with
K6Diagnostic == IF k6_file.kind = "missing" THEN {"results_not_found"}
                ELSE IF k6_file.kind = "malformed" THEN {"invalid_json"} ELSE {}
MetricsDiagnostic == IF metrics_arg.kind = "missing" THEN {"metrics_not_found"}
                     ELSE IF metrics_arg.kind = "unreadable" THEN {"metrics_error"} ELSE {}

\* the paths of the output directory with the given file name prefix
PathsOf(prefix) == {path \in DOMAIN files : path[2] = prefix}

\* what holds of every state of a run, whatever its loaders found
PipelineOrder ==
    /\ pc # "crashed"
    /\ \E n \in 0..Len(ExpectedCalls) : calls = SubSeq(ExpectedCalls, 1, n)
    /\ pc # "load_k6_results" =>
          /\ K6Diagnostic \subseteq console
          /\ k6_file.kind # "ok" => IsNone(k6_data)
    /\ pc \notin {"load_k6_results", "load_system_metrics"} =>
          /\ MetricsDiagnostic \subseteq console
          /\ metrics_arg.kind # "ok" => IsNone(system_df)
    /\ pc = "done" =>
          /\ calls = ExpectedCalls
          /\ Cardinality(PathsOf("load-test-analysis-")) = 1
          /\ Cardinality(PathsOf("performance-report-")) = 1
          /\ \A path \in DOMAIN files : Len(files[path]) = 1

\* C7: in every run, whatever the loaders find (document loaded, missing or
\* malformed; resource log not given, loaded, missing or unreadable), a loader
\* failure is reported and leaves its input absent without stopping the run, the
\* stages are called in the order loaders, analyzers, chart renderer, report
\* writer, each once, and the run eventually completes having written one chart
\* image and one report.
C7_PipelineCompletes == []PipelineOrder /\ <>(pc = "done")

\* C7 witness: a run completed after both loaders failed
C7_Witness ==
    /\ pc = "done"
    /\ k6_file.kind = "malformed"
    /\ metrics_arg.kind = "unreadable"
    /\ console = {"invalid_json", "metrics_error"}
    /\ calls = ExpectedCalls

\* C8 (as claimed): no invocation overwrites an artifact written by another
\* invocation: the chart paths of any two runs differ, and so do their report
\* paths.
C8_NeverOverwrites ==
    \A path \in DOMAIN files :
        \A i, j \in 1..Len(files[path]) : files[path][i].run = files[path][j].run

\* C8 (amended): two invocations write the same chart path, or the same report
\* path, only when both formatted the file name within the same second; a chart
\* and a report never share a path.
C8_SamePathOnlyInSameSecond ==
    /\ \A path \in DOMAIN files :
          \A i, j \in 1..Len(files[path]) :
              files[path][i].tick \div TicksPerSecond = files[path][j].tick \div TicksPerSecond
    /\ PathsOf("load-test-analysis-") \cap PathsOf("performance-report-") = {}
    /\ \A path \in DOMAIN files : path[1] = "load-test-analysis"

\* C8 witness: a second run, one second after the first, left four files
C8_Witness ==
    /\ pc = "done"
    /\ run = 2
    /\ Cardinality(PathsOf("load-test-analysis-")) = 2
    /\ Cardinality(PathsOf("performance-report-")) = 2

\* C9 (as claimed): the HTTP percentile panel is drawn exactly when the document
\* has the http_req_duration metric, and the business panel exactly when the
\* document has the three business success metrics: no panel is drawn from
\* zeros substituted for an absent input.
C9_PanelsNeedTheirInput ==
    GraphsSaved =>
        LET d == k6_file.content
            Has(m) == k6_file.kind = "ok" /\ "metrics" \in DOMAIN d /\ m \in DOMAIN d["metrics"]
        IN /\ "http" \in DOMAIN panels <=> Has("http_req_duration")
           /\ "business" \in DOMAIN panels <=>
                 (Has("room_creation_success") /\ Has("game_join_success")
                     /\ Has("question_flag_success"))

\* C10 (as claimed): for a present performance summary and each of HTTP p95,
\* error rate and WebSocket p95, the assessment line is the fail mark exactly
\* when the metric's recommendation block is written, also when the value equals
\* the threshold.
C10_AssessmentMatchesRecommendation ==
    (ReportClosed /\ ~IsNone(perf_analysis)) =>
        LET Failed(tag) == \E i \in LinesOf(tag) : report[i][2] = "fail"
        IN /\ Failed("assess_http") <=> HasLine("rec_http")
           /\ Failed("assess_error") <=> HasLine("rec_error")
           /\ Failed("assess_ws") <=> HasLine("rec_ws")

====
